---------------------------- MODULE Spec2Model ----------------------------
(***************************************************************************)
(* WhatsFind (Samshal/whatsfind): the SQLite store of src/db.py, the       *)
(* import handler of src/app.py and the read path (search, get_thread).    *)
(*                                                                         *)
(* The store is the committed database (store) plus the working copy of    *)
(* the one open write transaction (tx).  A transcript of an archive is     *)
(* represented by the sequence of records iter_messages_from_text emits    *)
(* for it.                                                                 *)
(***************************************************************************)
EXTENDS Integers, Sequences, FiniteSets, TLC

(***************************************************************************)
(* Bounds of the model.                                                    *)
(***************************************************************************)
\* The import loop flushes its batch at 1000 rows (src/app.py:253); the model
\* scales the batch size down and sizes the transcripts relative to it.
BatchSize == 2
\* An import starts only while the store holds at most this many messages.
MaxStored == 2
\* Largest context size get_thread is called with.
MaxContext == 2

NULL == "NULL"          \* SQL NULL / Python None in a text column
NoneInt == -1           \* Python None for an Optional[int] / Optional[bool] argument

Max(S) == CHOOSE x \in S : \A y \in S : y <= x
Min2(a, b) == IF a <= b THEN a ELSE b

(***************************************************************************)
(* Archives.  An entry is one *.txt transcript: its title (base name       *)
(* without extension), the records the reassembler emits for it, and where *)
(* bytes that are invalid under strict UTF-8 sit: "none", "start" (the     *)
(* one-character probe read fails, the entry is reopened as latin-1) or    *)
(* "later" (the probe passes and the strict reader raises when it reaches  *)
(* the record bad_row).                                                    *)
(***************************************************************************)
TsOf(k) == ((k \div 2) % 3) + 1
SenderOf(k) == IF k % 3 = 0 THEN NULL ELSE IF k % 3 = 1 THEN "al" ELSE "bo"
TextOf(k) == IF k % 2 = 0 THEN "hi" ELSE "hi yo"
MediaOf(k) == IF k % 4 < 2 THEN 0 ELSE 1

\* One emitted record: (ts_ms, sender, text, type, has_media, media_path).
Row(k) ==
    [ts |-> TsOf(k), sender |-> SenderOf(k), text |-> TextOf(k),
     type |-> IF SenderOf(k) = NULL THEN "system" ELSE "message",
     has_media |-> MediaOf(k), media_path |-> NULL]

Rows(n, seed) == [i \in 1..n |-> Row(seed + i)]

Entry(title, rows, bad, bad_row) ==
    [title |-> title, rows |-> rows, bad_utf8 |-> bad, bad_row |-> bad_row]

Zip(readable, entries) == [readable |-> readable, entries |-> entries]

ZipBroken == Zip(FALSE, <<>>)
ZipNoTxt == Zip(TRUE, <<>>)
ZipOne == Zip(TRUE, <<Entry("fam", Rows(BatchSize + 1, 0), "none", 0)>>)
ZipSameName ==
    Zip(TRUE, <<Entry("fam", Rows(BatchSize, 0), "none", 0),
                Entry("fam", Rows(1, 3), "start", 0)>>)
ZipTwo ==
    Zip(TRUE, <<Entry("fam", Rows(1, 1), "none", 0),
                Entry("job", Rows(BatchSize, 2), "none", 0)>>)
ZipBadBytes ==
    Zip(TRUE, <<Entry("job", Rows(BatchSize + 1, 1), "later", BatchSize + 1)>>)

\* One transcript whose only record has the empty string as sender (a header
\* whose rest begins with the colon-space separator).
ZipNoName ==
    Zip(TRUE, <<Entry("job", <<[Row(0) EXCEPT !.sender = ""]>>, "none", 0)>>)

Archives == {ZipBroken, ZipNoTxt, ZipOne, ZipSameName, ZipTwo, ZipBadBytes}

ImportModes == {"skip", "clear", "add"}

(***************************************************************************)
(* The database: tables chats, participants, messages and the FTS5 shadow  *)
(* table messages_fts kept by the triggers messages_ai / messages_ad.      *)
(***************************************************************************)
EmptyDb == [chats |-> {}, participants |-> {}, messages |-> {}, fts |-> {}]

\* INTEGER PRIMARY KEY without AUTOINCREMENT: the next rowid is max(rowid)+1,
\* and 1 in an empty table.
NextRowid(rows) == IF rows = {} THEN 1 ELSE Max({r.id : r \in rows}) + 1

InsertMessage(db, chat_id, row) ==
    LET id == NextRowid(db.messages) IN
    [db EXCEPT
       !.messages = @ \cup {[id |-> id, chat_id |-> chat_id, ts |-> row.ts,
                             sender |-> row.sender, type |-> row.type,
                             text |-> row.text, has_media |-> row.has_media,
                             media_path |-> row.media_path]},
       !.fts = @ \cup {[rowid |-> id, text |-> row.text]}]

\* batch: sequence of [chat_id, row]
RECURSIVE bulk_insert_messages(_, _)
bulk_insert_messages(db, batch) ==
    IF batch = <<>> THEN db
    ELSE bulk_insert_messages(InsertMessage(db, Head(batch).chat_id, Head(batch).row),
                              Tail(batch))

check_chat_has_messages(db, chat_id) ==
    Cardinality({m \in db.messages : m.chat_id = chat_id}) > 0

\* Variant of DeleteMessages: the rows go, their index entries stay (no
\* messages_ad trigger).
DeleteMessagesKeepsIndex(db, gone) == [db EXCEPT !.messages = @ \ gone]

\* DELETE FROM messages for the rows gone; the trigger messages_ad removes
\* each row's index entry.
DeleteMessages(db, gone) ==
    [db EXCEPT !.messages = @ \ gone,
               !.fts = @ \ {[rowid |-> m.id, text |-> m.text] : m \in gone}]

clear_chat_messages(db, chat_id) ==
    DeleteMessages(db, {m \in db.messages : m.chat_id = chat_id})

\* Variant of clear_all_data: the participants table is left alone.
clear_all_data_keeps_participants(db) ==
    [DeleteMessages(db, db.messages) EXCEPT !.chats = {}]

clear_all_data(db) ==
    [DeleteMessages(db, db.messages) EXCEPT !.chats = {}, !.participants = {}]

\* Variant of select_chat: the SELECT never finds a row.
select_chat_none(db, title) == {}

\* SELECT id FROM chats WHERE title = ?: the ids of the rows selected.
select_chat(db, title) == {c.id : c \in {c \in db.chats : c.title = title}}

\* INSERT INTO chats(title) VALUES(?).
insert_chat(db, title) ==
    [db EXCEPT !.chats = @ \cup {[id |-> NextRowid(db.chats), title |-> title]}]

\* SELECT id FROM chats WHERE title = ?, else INSERT: the id the call returns.
upsert_chat_id(db, title) ==
    LET found == select_chat(db, title) IN
    IF found # {} THEN CHOOSE i \in found : \A j \in found : i <= j
    ELSE NextRowid(db.chats)

upsert_chat(db, title) ==
    IF select_chat(db, title) # {} THEN db ELSE insert_chat(db, title)

upsert_participant(db, chat_id, name) ==
    IF \E p \in db.participants : p.chat_id = chat_id /\ p.name = name THEN db
    ELSE [db EXCEPT !.participants =
              @ \cup {[id |-> NextRowid(db.participants), chat_id |-> chat_id,
                       name |-> name]}]

(***************************************************************************)
(* State.                                                                  *)
(***************************************************************************)
VARIABLES
    store,          \* the committed database, what every new connection reads
    tx,             \* the import connection's view inside BEGIN .. COMMIT
    pc,             \* position of the import handler
    import_mode,    \* the radio button's value for the running import
    bytes_data,     \* the uploaded archive
    ti,             \* entries of the archive the generator has yielded
    mi,             \* records of the current transcript consumed
    chat_id,        \* chat of the current transcript
    batch,          \* rows waiting for bulk_insert_messages
    seen_senders,
    imported,       \* rows handed to bulk_insert_messages
    skipped,        \* indices of the entries skipped as duplicates (the code
                    \* keeps their count)
    pre,            \* the committed database when the handler started
    outcome,        \* "none", "ok" (st.success) or "failed" (st.error)
    last_skip,      \* history: the archive of the last import committed in skip
                    \* mode, while the store is still as that import left it
    rd,             \* the read made on the current store: reads leave the store
                    \* alone, so one read per store state shows every result
    cx,             \* connections of concurrent sessions and the write lock
    ps,             \* state of iter_messages_from_text over one transcript
    dp,             \* one header line and what _parse_header makes of it
    md              \* _current_zip_data, and the media last displayed

vars == <<store, tx, pc, import_mode, bytes_data, ti, mi, chat_id, batch,
          seen_senders, imported, skipped, pre, outcome, last_skip, rd,
          cx, ps, dp, md>>

NoRead == [op |-> "none"]

import_locals == <<import_mode, bytes_data, ti, mi, chat_id, batch,
                   seen_senders, imported, skipped>>

\* The sessions whose script runs may overlap, each with its own connection.
Conns == {1, 2}

\* A connection outside a transaction.
ConnIdle ==
    [pc |-> "idle", mode |-> "skip", zip |-> ZipBroken, ti |-> 0, chat_id |-> 0,
     snap |-> FALSE, stale |-> FALSE, view |-> EmptyDb]

CxInit == [lock |-> 0, conn |-> [c \in Conns |-> ConnIdle]]

\* The generator before its first line: available_media and the host's UTC
\* offset in hours are its environment.
PsInit(media, tz) ==
    [media |-> media, tz |-> tz, lines |-> <<>>, current |-> <<>>,
     out |-> <<>>, eof |-> FALSE]

\* No line parsed yet, on a host tz hours east of UTC.
DpInit(tz) == [tz |-> tz, input |-> <<>>, dt |-> <<>>, header |-> <<>>]

\* _current_zip_data = None; no media displayed.
MdInit == [zip_data |-> <<>>, shown |-> <<>>]

InitMain ==
    /\ store = EmptyDb
    /\ tx = EmptyDb
    /\ pc = "idle"
    /\ import_mode = "skip"
    /\ bytes_data = ZipBroken
    /\ ti = 0
    /\ mi = 0
    /\ chat_id = 0
    /\ batch = <<>>
    /\ seen_senders = {}
    /\ imported = 0
    /\ skipped = <<>>
    /\ pre = EmptyDb
    /\ outcome = "none"
    /\ last_skip = ZipBroken
    /\ rd = NoRead

Init ==
    /\ InitMain
    /\ cx = CxInit
    /\ ps = PsInit({}, 0)
    /\ dp = DpInit(0)
    /\ md = MdInit

(***************************************************************************)
(* The import handler, src/app.py:199-272.                                 *)
(***************************************************************************)
\* Variant of BeginImport: the clear-all branch is never taken.
BeginImportNoClear(db, mode) == db

\* What BEGIN followed by the clear-all branch leaves in the transaction.
BeginImport(db, mode) == IF mode = "clear" THEN clear_all_data(db) ELSE db

\* Upload with a file present: store_zip_data, BEGIN, and the clear-all branch.
StartImport(zip, mode) ==
    /\ pc = "idle"
    /\ mode = "clear" \/ Cardinality(store.messages) <= MaxStored
    /\ pc' = "chats"
    /\ import_mode' = mode
    /\ bytes_data' = zip
    /\ pre' = store
    /\ tx' = BeginImport(store, mode)
    /\ ti' = 0
    /\ mi' = 0
    /\ chat_id' = 0
    /\ batch' = <<>>
    /\ seen_senders' = {}
    /\ imported' = 0
    /\ skipped' = <<>>
    /\ outcome' = "none"
    /\ rd' = NoRead
    /\ UNCHANGED <<cx, ps, dp, md, store, last_skip>>

\* Variant of Rollback: the writes made so far stay (no ROLLBACK takes effect).
RollbackKeepsWrites ==
    /\ store' = tx
    /\ pc' = "done"
    /\ outcome' = "failed"
    /\ UNCHANGED <<cx, ps, dp, md, tx, import_locals, pre, last_skip, rd>>

\* except Exception: ROLLBACK, st.error.
Rollback ==
    /\ tx' = store
    /\ pc' = "done"
    /\ outcome' = "failed"
    /\ UNCHANGED <<cx, ps, dp, md, store, import_locals, pre, last_skip, rd>>

\* zipfile.ZipFile raises on the generator's first step.
ArchiveUnreadable ==
    /\ pc = "chats"
    /\ ~bytes_data.readable
    /\ Rollback

\* Variant of SkipsChat: the duplicate check never skips.
SkipsChatNever(db, mode, cid) == FALSE

\* The chat is skipped (skip mode, chat has messages).
SkipsChat(db, mode, cid) == mode = "skip" /\ check_chat_has_messages(db, cid)

\* The transaction after upsert_chat and the mode's branch for one entry.
EnterChat(db, mode, title) ==
    LET db1 == upsert_chat(db, title)
        cid == upsert_chat_id(db, title)
    IN  IF mode = "clear" /\ check_chat_has_messages(db1, cid)
        THEN clear_chat_messages(db1, cid)
        ELSE db1

\* The generator yields the next entry: upsert_chat and the mode's branch.
NextChat ==
    /\ pc = "chats"
    /\ bytes_data.readable
    /\ ti < Len(bytes_data.entries)
    /\ LET e == bytes_data.entries[ti + 1]
           cid == upsert_chat_id(tx, e.title)
       IN /\ ti' = ti + 1
          /\ chat_id' = cid
          /\ tx' = EnterChat(tx, import_mode, e.title)
          /\ IF SkipsChat(upsert_chat(tx, e.title), import_mode, cid)
             THEN /\ skipped' = Append(skipped, ti + 1)
                  /\ pc' = "chats"
             ELSE /\ skipped' = skipped
                  /\ pc' = "msgs"
          /\ mi' = 0
          /\ batch' = <<>>
          /\ seen_senders' = {}
    /\ UNCHANGED <<cx, ps, dp, md, store, import_mode, bytes_data, imported, pre, outcome,
                   last_skip, rd>>

\* The strict reader meets invalid bytes before the next record.
DecodeRaises(e, k) == e.bad_utf8 = "later" /\ e.bad_row = k

\* The transaction after the loop body's upsert_participant for one record.
SeeSender(db, cid, seen, row) ==
    IF row.sender # NULL /\ row.sender # "" /\ row.sender \notin seen
    THEN upsert_participant(db, cid, row.sender)
    ELSE db

\* One record of the transcript: participant, batch.append, flush at BatchSize.
NextMessage ==
    /\ pc = "msgs"
    /\ LET e == bytes_data.entries[ti] IN
       /\ mi < Len(e.rows)
       /\ ~DecodeRaises(e, mi + 1)
       /\ LET row == e.rows[mi + 1]
              db1 == SeeSender(tx, chat_id, seen_senders, row)
              b1 == Append(batch, [chat_id |-> chat_id, row |-> row])
          IN /\ mi' = mi + 1
             /\ seen_senders' = IF row.sender # NULL /\ row.sender # ""
                                THEN seen_senders \cup {row.sender}
                                ELSE seen_senders
             /\ IF Len(b1) >= BatchSize
                THEN /\ tx' = bulk_insert_messages(db1, b1)
                     /\ imported' = imported + Len(b1)
                     /\ batch' = <<>>
                ELSE /\ tx' = db1
                     /\ imported' = imported
                     /\ batch' = b1
    /\ UNCHANGED <<cx, ps, dp, md, store, pc, import_mode, bytes_data, ti,
                   chat_id, skipped,
                   pre, outcome, last_skip, rd>>

\* UnicodeDecodeError raised by the transcript's iterator.
DecodeError ==
    /\ pc = "msgs"
    /\ mi < Len(bytes_data.entries[ti].rows)
    /\ DecodeRaises(bytes_data.entries[ti], mi + 1)
    /\ Rollback

\* sqlite3.Error raised by a statement inside the try block.
StorageError ==
    /\ pc \in {"chats", "msgs"}
    /\ Rollback

\* End of the transcript: the remaining batch is inserted.
EndChat ==
    /\ pc = "msgs"
    /\ mi = Len(bytes_data.entries[ti].rows)
    /\ tx' = bulk_insert_messages(tx, batch)
    /\ imported' = imported + Len(batch)
    /\ batch' = <<>>
    /\ pc' = "chats"
    /\ UNCHANGED <<cx, ps, dp, md, store, import_mode, bytes_data, ti, mi, chat_id,
                   seen_senders, skipped, pre, outcome, last_skip, rd>>

\* The generator is exhausted: COMMIT, st.success.
Commit ==
    /\ pc = "chats"
    /\ bytes_data.readable
    /\ ti = Len(bytes_data.entries)
    /\ store' = tx
    /\ pc' = "done"
    /\ outcome' = "ok"
    /\ UNCHANGED <<cx, ps, dp, md, tx, import_locals, pre, last_skip, rd>>

\* The script run ends; the handler's locals are gone.
Finish ==
    /\ pc = "done"
    /\ pc' = "idle"
    /\ tx' = store
    /\ import_mode' = "skip"
    /\ bytes_data' = ZipBroken
    /\ ti' = 0
    /\ mi' = 0
    /\ chat_id' = 0
    /\ batch' = <<>>
    /\ seen_senders' = {}
    /\ imported' = 0
    /\ skipped' = <<>>
    /\ pre' = EmptyDb
    /\ outcome' = "none"
    /\ last_skip' = IF outcome # "ok" THEN last_skip
                    ELSE IF import_mode = "skip" THEN bytes_data
                    ELSE ZipBroken
    /\ UNCHANGED <<cx, ps, dp, md, store, rd>>

\* Sidebar button "Clear All Data": BEGIN, clear_all_data, COMMIT, st.success.
ClearAllButton ==
    /\ pc = "idle"
    /\ store.chats # {}
    /\ store' = clear_all_data(store)
    /\ tx' = clear_all_data(store)
    /\ pc' = "cleared"
    /\ pre' = store
    /\ rd' = NoRead
    /\ last_skip' = ZipBroken
    /\ UNCHANGED <<cx, ps, dp, md, import_locals, outcome>>

\* st.rerun() after the button's COMMIT: the script starts over.
Rerun ==
    /\ pc = "cleared"
    /\ pc' = "idle"
    /\ pre' = EmptyDb
    /\ UNCHANGED <<cx, ps, dp, md, store, tx, import_locals, outcome, last_skip, rd>>

(***************************************************************************)
(* The import block run to its COMMIT in one piece, src/app.py:220-262,    *)
(* for an archive no statement of which raises.                            *)
(***************************************************************************)
\* The message loop of one transcript from record k + 1 on, and the flush.
RECURSIVE import_rows(_, _, _, _, _, _)
import_rows(db, cid, rows, k, seen, b) ==
    IF k = Len(rows) THEN bulk_insert_messages(db, b)
    ELSE LET row == rows[k + 1]
             db1 == SeeSender(db, cid, seen, row)
             b1 == Append(b, [chat_id |-> cid, row |-> row])
             seen1 == IF row.sender # NULL /\ row.sender # ""
                      THEN seen \cup {row.sender} ELSE seen
         IN  IF Len(b1) >= BatchSize
             THEN import_rows(bulk_insert_messages(db1, b1), cid, rows, k + 1,
                              seen1, <<>>)
             ELSE import_rows(db1, cid, rows, k + 1, seen1, b1)

\* The loop over the archive's transcripts from entry i on.
RECURSIVE import_entries(_, _, _, _)
import_entries(db, zip, mode, i) ==
    IF i > Len(zip.entries) THEN db
    ELSE LET e == zip.entries[i]
             cid == upsert_chat_id(db, e.title)
             db1 == EnterChat(db, mode, e.title)
         IN  IF SkipsChat(upsert_chat(db, e.title), mode, cid)
             THEN import_entries(db1, zip, mode, i + 1)
             ELSE import_entries(import_rows(db1, cid, e.rows, 0, {}, <<>>),
                                 zip, mode, i + 1)

import_block(db, zip, mode) == import_entries(BeginImport(db, mode), zip, mode, 1)

(***************************************************************************)
(* The read path, src/db.py:105-147.  ORDER BY ts leaves the order of rows *)
(* with equal ts to the engine: every order sorted on ts is a possible     *)
(* result, and each statement picks one.                                   *)
(***************************************************************************)
\* All sequences of the rows of S sorted on ts (descending or ascending).
RECURSIVE OrderByTs(_, _)
OrderByTs(S, desc) ==
    IF S = {} THEN {<<>>}
    ELSE LET first == {m \in S : \A x \in S :
                          IF desc THEN m.ts >= x.ts ELSE m.ts <= x.ts}
         IN UNION {{<<m>> \o s : s \in OrderByTs(S \ {m}, desc)} : m \in first}

\* LIMIT n OFFSET k over an ordered result.
LimitOffset(s, n, k) == SubSeq(s, k + 1, Min2(k + n, Len(s)))

Reversed(s) == [i \in 1..Len(s) |-> s[Len(s) + 1 - i]]

SeqToSet(s) == {s[i] : i \in 1..Len(s)}

\* Terms of a body text as the FTS5 tokenizer indexes them.
Tokens(text) ==
    IF text = "hi yo" THEN {"hi", "yo"}
    ELSE IF text = "hi" THEN {"hi"}
    ELSE IF text = "yo" THEN {"yo"}
    ELSE {}

\* Variant of search_where: an inverted range is swapped before BETWEEN.
search_where_swapped(db, q, chat, sender, t1, t2, has_media) ==
    {m \in db.messages :
        /\ \E f \in db.fts : f.rowid = m.id /\ q \in Tokens(f.text)
        /\ (chat # NoneInt /\ chat # 0) => m.chat_id = chat
        /\ (sender # NULL /\ sender # "") => m.sender = sender
        /\ (t1 # NoneInt /\ t2 # NoneInt) =>
               (Min2(t1, t2) <= m.ts /\ m.ts <= Max({t1, t2}))
        /\ has_media # NoneInt => m.has_media = (IF has_media = 1 THEN 1 ELSE 0)}

\* The rows of SELECT m.* FROM messages m JOIN messages_fts f ... WHERE ...
\* before ORDER BY and LIMIT.
search_where(db, q, chat, sender, t1, t2, has_media) ==
    {m \in db.messages :
        /\ \E f \in db.fts : f.rowid = m.id /\ q \in Tokens(f.text)
        /\ (chat # NoneInt /\ chat # 0) => m.chat_id = chat
        /\ (sender # NULL /\ sender # "") => m.sender = sender
        /\ (t1 # NoneInt /\ t2 # NoneInt) => (t1 <= m.ts /\ m.ts <= t2)
        /\ has_media # NoneInt => m.has_media = (IF has_media = 1 THEN 1 ELSE 0)}

\* The possible results of search(conn, q, chat, sender, t1, t2, has_media,
\* limit, offset).
search(db, a, offset) ==
    {LimitOffset(s, a.limit, offset) :
        s \in OrderByTs(search_where(db, a.q, a.chat_id, a.sender, a.t1, a.t2,
                                     a.has_media), TRUE)}

\* The possible threads around a stored row: the before and after queries and
\* list(reversed(before)) + [row] + list(after).
thread_around(db, row, context) ==
    LET le == {m \in db.messages : m.chat_id = row.chat_id /\ m.ts <= row.ts}
        gt == {m \in db.messages : m.chat_id = row.chat_id /\ m.ts > row.ts}
    IN {[thread |-> Reversed(LimitOffset(b, context, 0)) \o <<row>>
                       \o LimitOffset(a, context, 0),
         row |-> <<row>>] :
           b \in OrderByTs(le, TRUE), a \in OrderByTs(gt, FALSE)}

\* Variant of get_thread: the row is looked up with id >= ? instead of id = ?.
get_thread_ge(db, message_id, context) ==
    LET found == {m \in db.messages : m.id >= message_id} IN
    IF found = {} THEN {[thread |-> <<>>, row |-> <<>>]}
    ELSE thread_around(db, CHOOSE m \in found : \A x \in found : m.id <= x.id,
                       context)

\* The possible results (thread, row) of get_thread(conn, message_id, context);
\* row is <<>> for None.
get_thread(db, message_id, context) ==
    LET found == {m \in db.messages : m.id = message_id} IN
    IF found = {} THEN {[thread |-> <<>>, row |-> <<>>]}
    ELSE thread_around(db, CHOOSE m \in found : TRUE, context)

QueryTerms == {"hi", "yo"}
ChatArgs == {NoneInt, 1}
SenderArgs == {NULL, "al"}
FromArgs == {NoneInt, 1, 2, 3}
ToArgs == {NoneInt, 1, 2, 3}
MediaArgs == {NoneInt, 0, 1}
PageSizes == {1, 2}

SearchArgs ==
    [q : QueryTerms, chat_id : ChatArgs, sender : SenderArgs, t1 : FromArgs,
     t2 : ToArgs, has_media : MediaArgs, limit : PageSizes]

\* Message ids get_thread is called with: every stored id and two absent ones.
ThreadIds(db) == {m.id : m \in db.messages} \cup {0, NextRowid(db.messages)}

\* Search tab: search(...) at offset 0.
Search(a) ==
    /\ pc = "idle"
    /\ rd = NoRead
    /\ \E page \in search(store, a, 0) :
          rd' = [op |-> "search", args |-> a, pages |-> <<page>>]
    /\ UNCHANGED <<cx, ps, dp, md, store, tx, pc, import_locals, pre, outcome, last_skip>>

\* The same search again at the next offset (offset + limit), nothing written
\* in between.
SearchNextPage ==
    /\ pc = "idle"
    /\ rd.op = "search"
    /\ rd.pages[Len(rd.pages)] # <<>>
    /\ \E page \in search(store, rd.args, Len(rd.pages) * rd.args.limit) :
          rd' = [rd EXCEPT !.pages = Append(@, page)]
    /\ UNCHANGED <<cx, ps, dp, md, store, tx, pc, import_locals, pre, outcome, last_skip>>

\* Thread view: get_thread(conn, message_id, context).
GetThread(message_id, context) ==
    /\ pc = "idle"
    /\ rd = NoRead
    /\ \E r \in get_thread(store, message_id, context) :
          rd' = [op |-> "get_thread", message_id |-> message_id,
                 context |-> context, thread |-> r.thread, row |-> r.row]
    /\ UNCHANGED <<cx, ps, dp, md, store, tx, pc, import_locals, pre, outcome, last_skip>>

\* Calendar year of a day count since 1970-01-01 (proleptic Gregorian).
YearOfDays(days) ==
    LET z == days + 719468
        era == z \div 146097
        doe == z - era * 146097
        yoe == (doe - doe \div 1460 + doe \div 36524 - doe \div 146096) \div 365
        doy == doe - (365 * yoe + yoe \div 4 - yoe \div 100)
        mp == (5 * doy + 2) \div 153
    IN  yoe + era * 400 + (IF mp < 10 THEN 0 ELSE 1)

\* strftime('%Y', datetime(ts/1000, 'unixepoch')): the UTC year of ts, as a
\* number.
YearOf(ts) == YearOfDays((ts \div 1000) \div 86400)

\* All sequences holding each number of S once, ascending.
RECURSIVE Ascending(_)
Ascending(S) ==
    IF S = {} THEN <<>>
    ELSE LET lo == CHOOSE x \in S : \A y \in S : x <= y
         IN  <<lo>> \o Ascending(S \ {lo})

\* The three facet lists.  Chats and senders are given as the sets of rows
\* the statements select (their ORDER BY is on text); years ascending.
list_facets(db) ==
    [chats |-> db.chats,
     senders |-> {m.sender : m \in {x \in db.messages : x.sender # NULL}},
     years |-> Ascending({YearOf(m.ts) : m \in db.messages})]

\* The search tab fills its filter boxes.
ListFacets ==
    /\ pc = "idle"
    /\ rd = NoRead
    /\ rd' = [op |-> "list_facets", facets |-> list_facets(store)]
    /\ UNCHANGED <<cx, ps, dp, md, store, tx, pc, import_locals, pre, outcome, last_skip>>

Next ==
    \/ \E zip \in Archives, mode \in ImportModes : StartImport(zip, mode)
    \/ ArchiveUnreadable
    \/ NextChat
    \/ NextMessage
    \/ DecodeError
    \/ StorageError
    \/ EndChat
    \/ Commit
    \/ Finish
    \/ ClearAllButton
    \/ Rerun
    \/ ListFacets
    \/ \E a \in SearchArgs : Search(a)
    \/ SearchNextPage
    \/ \E id \in ThreadIds(store), c \in 0..MaxContext : GetThread(id, c)

Spec == Init /\ [][Next]_vars

\* Imports and clears alone, over archives that include an empty sender name.
WriteArchives == {ZipNoName, ZipOne, ZipSameName, ZipTwo}

NextWrites ==
    \/ \E zip \in WriteArchives, mode \in ImportModes : StartImport(zip, mode)
    \/ NextChat
    \/ NextMessage
    \/ StorageError
    \/ EndChat
    \/ Commit
    \/ Finish
    \/ ClearAllButton
    \/ Rerun

SpecWrites == Init /\ [][NextWrites]_vars

(***************************************************************************)
(* Imports of sessions whose transactions overlap.  Each session runs the  *)
(* import block of src/app.py:219-267 on its own connection.  The database *)
(* is in WAL mode (src/db.py:10): a connection reads the committed state   *)
(* its transaction first saw plus its own writes; one connection at a time *)
(* holds the write lock, from its first write to COMMIT or ROLLBACK; a     *)
(* transaction that has read cannot write once another connection has      *)
(* committed a write (the statement fails as busy), nor while another      *)
(* holds the lock.                                                         *)
(***************************************************************************)
\* The variables of the single-session model that these imports leave alone.
session == <<tx, pc, import_locals, pre, outcome, last_skip, ps, dp, md>>

ConcArchives == {ZipOne, ZipTwo}

\* What connection c reads.
View(c) == IF cx.conn[c].snap THEN cx.conn[c].view ELSE store

\* Connection c's next write statement can take or already has the write lock.
Writable(c) == cx.lock \in {0, c} /\ ~cx.conn[c].stale

\* A read operation of another session has begun and not yet returned its
\* last statement's rows.
Reading == rd # NoRead /\ rd.step < rd.steps

\* conn.execute("BEGIN"): a deferred transaction, nothing is locked yet.
CBegin(c, zip, mode) ==
    /\ cx.conn[c].pc = "idle"
    /\ mode = "clear" \/ Cardinality(store.messages) <= MaxStored
    /\ cx' = [cx EXCEPT !.conn[c] =
                [ConnIdle EXCEPT !.pc = IF mode = "clear" THEN "clearing"
                                        ELSE "chats",
                                 !.mode = mode, !.zip = zip]]
    /\ UNCHANGED <<store, session, rd>>

\* The clear-all branch: the transaction's first statement is a write, which
\* waits for the lock and then sees the latest committed state.
CClearAll(c) ==
    /\ cx.conn[c].pc = "clearing"
    /\ cx.lock = 0
    /\ cx' = [cx EXCEPT !.lock = c,
                        !.conn[c].snap = TRUE,
                        !.conn[c].view = clear_all_data(store),
                        !.conn[c].pc = "chats"]
    /\ UNCHANGED <<store, session, rd>>

\* upsert_chat, first statement: the SELECT.
CUpsertSelect(c) ==
    LET k == cx.conn[c] IN
    /\ k.pc = "chats"
    /\ k.ti < Len(k.zip.entries)
    /\ LET title == k.zip.entries[k.ti + 1].title
           found == select_chat(View(c), title)
       IN  cx' = [cx EXCEPT !.conn[c] =
                    [k EXCEPT !.snap = TRUE,
                              !.view = View(c),
                              !.ti = k.ti + 1,
                              !.chat_id = IF found # {}
                                          THEN upsert_chat_id(View(c), title)
                                          ELSE 0,
                              !.pc = IF found # {} THEN "body" ELSE "insert"]]
    /\ UNCHANGED <<store, session, rd>>

\* upsert_chat, second statement: the INSERT, when the SELECT found no row.
CUpsertInsert(c) ==
    LET k == cx.conn[c] IN
    /\ k.pc = "insert"
    /\ Writable(c)
    /\ cx' = [cx EXCEPT !.lock = c,
                        !.conn[c].view = insert_chat(k.view, k.zip.entries[k.ti].title),
                        !.conn[c].chat_id = NextRowid(k.view.chats),
                        !.conn[c].pc = "body"]
    /\ UNCHANGED <<store, session, rd>>

\* Skip mode, the chat has messages: continue with the next transcript.
CSkip(c) ==
    LET k == cx.conn[c] IN
    /\ k.pc = "body"
    /\ SkipsChat(k.view, k.mode, k.chat_id)
    /\ cx' = [cx EXCEPT !.conn[c].pc = "chats"]
    /\ UNCHANGED <<store, session, rd>>

\* The rest of the loop body for one transcript: the clear branch, the
\* participants and the messages.
CTranscript(c) ==
    LET k == cx.conn[c] IN
    /\ k.pc = "body"
    /\ ~SkipsChat(k.view, k.mode, k.chat_id)
    /\ Writable(c)
    /\ LET db1 == IF k.mode = "clear" /\ check_chat_has_messages(k.view, k.chat_id)
                  THEN clear_chat_messages(k.view, k.chat_id)
                  ELSE k.view
       IN  cx' = [cx EXCEPT !.lock = c,
                            !.conn[c].view =
                                import_rows(db1, k.chat_id, k.zip.entries[k.ti].rows,
                                            0, {}, <<>>),
                            !.conn[c].pc = "chats"]
    /\ UNCHANGED <<store, session, rd>>

\* COMMIT: the connection's writes become the committed state; transactions
\* that have read an older state can no longer write.
CCommit(c) ==
    LET k == cx.conn[c]
        wrote == cx.lock = c
    IN
    /\ k.pc = "chats"
    /\ k.ti = Len(k.zip.entries)
    /\ store' = IF wrote THEN k.view ELSE store
    /\ cx' = [lock |-> IF wrote THEN 0 ELSE cx.lock,
              conn |-> [d \in Conns |->
                          IF d = c THEN ConnIdle
                          ELSE IF wrote /\ cx.conn[d].snap
                               THEN [cx.conn[d] EXCEPT !.stale = TRUE]
                               ELSE cx.conn[d]]]
    /\ rd' = IF Reading /\ wrote THEN [rd EXCEPT !.seen = @ \cup {k.view}] ELSE rd
    /\ UNCHANGED session

\* A statement raises sqlite3.Error (a write that finds the database locked,
\* among others): except Exception: ROLLBACK.
CRollback(c) ==
    /\ cx.conn[c].pc # "idle"
    /\ cx' = [cx EXCEPT !.lock = IF cx.lock = c THEN 0 ELSE cx.lock,
                        !.conn[c] = ConnIdle]
    /\ UNCHANGED <<store, session, rd>>

(***************************************************************************)
(* Reads of a further session on its own connection (src/app.py:428-429).  *)
(* The connection is outside a transaction (sqlite3 opens one implicitly   *)
(* only before a data-modifying statement), so each SELECT is its own read *)
(* transaction on the state committed when it runs.  rd.seen collects the  *)
(* committed states from the operation's first statement to its last.      *)
(***************************************************************************)
\* The searches a concurrent session runs: a term, no filter.
ConcSearchArgs ==
    {[q |-> t, chat_id |-> NoneInt, sender |-> NULL, t1 |-> NoneInt,
      t2 |-> NoneInt, has_media |-> NoneInt, limit |-> 2] : t \in QueryTerms}

\* search(...): one statement.
CSearch(a) ==
    /\ rd = NoRead
    /\ \E page \in search(store, a, 0) :
          rd' = [op |-> "search", step |-> 1, steps |-> 1, seen |-> {store},
                 args |-> a, pages |-> <<page>>]
    /\ UNCHANGED <<store, cx, session>>

\* list_facets, first statement: SELECT id, title FROM chats.
CFacetsChats ==
    /\ rd = NoRead
    /\ rd' = [op |-> "list_facets", step |-> 1, steps |-> 3, seen |-> {store},
              facets |-> [chats |-> list_facets(store).chats,
                          senders |-> {}, years |-> <<>>]]
    /\ UNCHANGED <<store, cx, session>>

\* list_facets, second statement: SELECT DISTINCT sender FROM messages.
CFacetsSenders ==
    /\ rd # NoRead
    /\ rd.op = "list_facets" /\ rd.step = 1
    /\ rd' = [rd EXCEPT !.step = 2,
                        !.facets.senders = list_facets(store).senders]
    /\ UNCHANGED <<store, cx, session>>

\* list_facets, third statement: SELECT DISTINCT strftime('%Y', ...).
CFacetsYears ==
    /\ rd # NoRead
    /\ rd.op = "list_facets" /\ rd.step = 2
    /\ rd' = [rd EXCEPT !.step = 3,
                        !.facets.years = list_facets(store).years]
    /\ UNCHANGED <<store, cx, session>>

\* The script has used the result; the session can read again.
CReadDone ==
    /\ rd # NoRead
    /\ rd.step = rd.steps
    /\ rd' = NoRead
    /\ UNCHANGED <<store, cx, session>>

NextConc ==
    \/ \E a \in ConcSearchArgs : CSearch(a)
    \/ CFacetsChats
    \/ CFacetsSenders
    \/ CFacetsYears
    \/ CReadDone
    \/ \E c \in Conns, zip \in ConcArchives, mode \in ImportModes :
          CBegin(c, zip, mode)
    \/ \E c \in Conns : CClearAll(c)
    \/ \E c \in Conns : CUpsertSelect(c)
    \/ \E c \in Conns : CUpsertInsert(c)
    \/ \E c \in Conns : CSkip(c)
    \/ \E c \in Conns : CTranscript(c)
    \/ \E c \in Conns : CCommit(c)
    \/ \E c \in Conns : CRollback(c)

SpecConc == Init /\ [][NextConc]_vars

(***************************************************************************)
(* The transcript parser, src/parser.py:11-197.  A text is the sequence of *)
(* its words; a line is given by what HEADER_RE finds in it: whether it    *)
(* matches, the numbers of the date and time groups, the AM/PM marker, and *)
(* the words of the rest.  prefix stands for the characters of a matching  *)
(* line up to the rest.  An optional value is <<>> (None) or <<value>>.    *)
(***************************************************************************)
\* Largest number of lines of a transcript.
MaxLines == 4

Hdr(prefix, d1, d2, d3, hh, mm, ampm, rest) ==
    [hdr |-> TRUE, prefix |-> prefix, d1 |-> d1, d2 |-> d2, d3 |-> d3,
     hh |-> hh, mm |-> mm, ampm |-> ampm, rest |-> rest]

Plain(words) ==
    [hdr |-> FALSE, prefix |-> "", d1 |-> 0, d2 |-> 0, d3 |-> 0,
     hh |-> 0, mm |-> 0, ampm |-> "", rest |-> words]

\* The line as read, without its newline.
Raw(line) == IF line.hdr THEN <<line.prefix>> \o line.rest ELSE line.rest

ImgName == "IMG-20230101-WA0001.jpg"
PdfName == "doc.pdf"

LineMsg == Hdr("[05/03/2023, 09:15] ", 5, 3, 2023, 9, 15, "", <<"al", ": ", "hi">>)
LineEmpty == Hdr("[05/03/2023, 09:16]", 5, 3, 2023, 9, 16, "", <<>>)
LineTwoNames ==
    Hdr("[05/03/2023, 09:17] ", 5, 3, 2023, 9, 17, "",
        <<"al", ": ", PdfName, ImgName>>)
LineOmitted ==
    Hdr("05/03/2023, 9:18 PM - ", 5, 3, 2023, 9, 18, "PM",
        <<"bo", ": ", "<Media omitted>">>)
LineBadHour == Hdr("[05/03/2023, 25:00] ", 5, 3, 2023, 25, 0, "", <<"al", ": ", "hi">>)
LineNoName == Hdr("[05/03/2023, 09:19] ", 5, 3, 2023, 9, 19, "", <<": ", "hi">>)
LineMore == Plain(<<"more">>)
LineName == Plain(<<ImgName>>)
LineImageOmitted == Plain(<<"IMAGE OMITTED">>)
LineBlank == Plain(<<>>)

Lines == {LineMsg, LineEmpty, LineTwoNames, LineOmitted, LineBadHour,
          LineNoName, LineMore, LineName, LineImageOmitted, LineBlank}

\* The sets of base names of the archive's entries that are not transcripts.
MediaSets == {{}, {ImgName}}

\* The host's offset from UTC in hours.
TzHours == {0, 2}

IsLeap(y) == (y % 4 = 0 /\ y % 100 # 0) \/ y % 400 = 0

DaysInMonth(y, m) ==
    IF m = 2 THEN (IF IsLeap(y) THEN 29 ELSE 28)
    ELSE IF m \in {4, 6, 9, 11} THEN 30 ELSE 31

\* Variant of datetime_ok: any day up to 31 exists in every month.
datetime_ok_any_day(y, m, d, h, minute) ==
    /\ 1 <= y /\ y <= 9999
    /\ 1 <= m /\ m <= 12
    /\ 1 <= d /\ d <= 31
    /\ 0 <= h /\ h <= 23
    /\ 0 <= minute /\ minute <= 59

\* datetime(year, month, day, hour, minute) does not raise ValueError.
datetime_ok(y, m, d, h, minute) ==
    /\ 1 <= y /\ y <= 9999
    /\ 1 <= m /\ m <= 12
    /\ 1 <= d /\ d <= DaysInMonth(y, m)
    /\ 0 <= h /\ h <= 23
    /\ 0 <= minute /\ minute <= 59

\* The year the three numbers of a date stand for.
DateYear(d1, d2, d3) ==
    IF d3 > 31 THEN d3
    ELSE IF d1 > 31 THEN d1
    ELSE IF d3 < 50 THEN 2000 + d3 ELSE 1900 + d3

\* Variant of DayMonth: two numbers up to 12 are read month first.
DayMonthMonthFirst(d1, d2, d3) ==
    IF ~(d3 > 31) /\ d1 > 31
    THEN IF d2 > 12 THEN [day |-> d2, month |-> d3] ELSE [day |-> d3, month |-> d2]
    ELSE IF d1 > 12 THEN [day |-> d1, month |-> d2]
    ELSE [day |-> d2, month |-> d1]

\* The day and month the three numbers of a date stand for.
DayMonth(d1, d2, d3) ==
    IF ~(d3 > 31) /\ d1 > 31
    THEN IF d2 > 12 THEN [day |-> d2, month |-> d3] ELSE [day |-> d3, month |-> d2]
    ELSE IF d1 > 12 THEN [day |-> d1, month |-> d2]
    ELSE IF d2 > 12 THEN [day |-> d2, month |-> d1]
    ELSE [day |-> d1, month |-> d2]

\* Variant of Hour24: 12 AM stays 12.
Hour24NoMidnight(hh, ampm) == IF ampm = "PM" /\ hh # 12 THEN hh + 12 ELSE hh

\* The hour after the AM/PM marker is applied.
Hour24(hh, ampm) ==
    IF ampm = "PM" /\ hh # 12 THEN hh + 12
    ELSE IF ampm = "AM" /\ hh = 12 THEN 0 ELSE hh

parse_whatsapp_date(d1, d2, d3, hh, mm, ampm) ==
    LET year == DateYear(d1, d2, d3)
        day == DayMonth(d1, d2, d3).day
        month == DayMonth(d1, d2, d3).month
        hour == Hour24(hh, ampm)
    IN  IF ~(1 <= month /\ month <= 12 /\ 1 <= day /\ day <= 31
             /\ 1900 <= year /\ year <= 2100)
        THEN <<>>
        ELSE IF ~(0 <= hour /\ hour <= 23 /\ 0 <= mm /\ mm <= 59) THEN <<>>
        ELSE IF ~datetime_ok(year, month, day, hour, mm) THEN <<>>
        ELSE <<[year |-> year, month |-> month, day |-> day,
                hour |-> hour, minute |-> mm]>>

\* Days from 1970-01-01 to the given date (proleptic Gregorian).
DaysFromCivil(y, m, d) ==
    LET y1 == IF m <= 2 THEN y - 1 ELSE y
        era == y1 \div 400
        yoe == y1 - era * 400
        mp == IF m > 2 THEN m - 3 ELSE m + 9
        doy == (153 * mp + 2) \div 5 + d - 1
        doe == yoe * 365 + yoe \div 4 - yoe \div 100 + doy
    IN  era * 146097 + doe - 719468

\* int(time.mktime(dt.timetuple()) * 1000) on a host tz hours east of UTC,
\* counted in minutes: dt has no seconds, so epoch_ms is this number times
\* 60000, beyond TLC's 32-bit integers.
mktime_min(dt, tz) ==
    DaysFromCivil(dt.year, dt.month, dt.day) * 1440
       + dt.hour * 60 + dt.minute - tz * 60

\* rest.split(": ", 1) when ": " is in rest: optional sender and the text.
split_sender(rest) ==
    LET at == {i \in 1..Len(rest) : rest[i] = ": "} IN
    IF at = {} THEN [sender |-> <<>>, text |-> rest]
    ELSE LET i == CHOOSE x \in at : \A y \in at : x <= y
         IN  [sender |-> <<SubSeq(rest, 1, i - 1)>>,
              text |-> SubSeq(rest, i + 1, Len(rest))]

\* Variant of parse_header: a matching line whose date or time does not parse
\* is still a header, at the epoch.
parse_header_no_date_check(line, tz) ==
    IF ~line.hdr THEN <<>>
    ELSE LET dt == parse_whatsapp_date(line.d1, line.d2, line.d3,
                                       line.hh, line.mm, line.ampm)
             f == split_sender(line.rest)
         IN  <<[ts |-> IF dt = <<>> THEN 0 ELSE mktime_min(dt[1], tz),
                sender |-> f.sender, text |-> f.text]>>

\* _parse_header: <<>> or <<(timestamp, sender, text)>>.
parse_header(line, tz) ==
    IF ~line.hdr THEN <<>>
    ELSE LET dt == parse_whatsapp_date(line.d1, line.d2, line.d3,
                                       line.hh, line.mm, line.ampm)
             f == split_sender(line.rest)
         IN  IF dt = <<>> THEN <<>>
             ELSE <<[ts |-> mktime_min(dt[1], tz),
                     sender |-> f.sender, text |-> f.text]>>

\* Truth value of an optional string.
Truthy(opt) == opt # <<>> /\ opt[1] # <<>>

\* The words MEDIA_REGEX matches.
MediaNames == {ImgName, PdfName}

\* MEDIA_REGEX.search(text): the leftmost match, if any.
media_search(text) ==
    LET hits == {i \in 1..Len(text) : text[i] \in MediaNames} IN
    IF hits = {} THEN <<>>
    ELSE <<text[CHOOSE i \in hits : \A j \in hits : i <= j]>>

\* str.lower on a word.
Lower(word) ==
    IF word = "IMAGE OMITTED" THEN "image omitted"
    ELSE IF word = "IMG-20230101-WA0001.JPG" THEN "IMG-20230101-WA0001.jpg"
    ELSE IF word = "<Media omitted>" THEN "<media omitted>"
    ELSE word

\* "<Media omitted>" in text or "image omitted" in text.lower()
HasPlaceholder(text) ==
    \/ \E i \in 1..Len(text) : text[i] = "<Media omitted>"
    \/ \E i \in 1..Len(text) : Lower(text[i]) = "image omitted"

\* The media scan of the record's text against available_media.
ScanMedia(rec, media) ==
    LET hit == media_search(rec.text) IN
    IF hit # <<>> /\ hit[1] \in media
    THEN [rec EXCEPT !.has_media = 1, !.media_path = hit]
    ELSE rec

\* The pending record a header line starts.
NewMessage(h, media) ==
    ScanMedia([ts |-> h.ts, sender |-> h.sender, text |-> h.text,
               type |-> IF Truthy(h.sender) THEN "message" ELSE "system",
               has_media |-> IF HasPlaceholder(h.text) THEN 1 ELSE 0,
               media_path |-> <<>>],
              media)

\* The pending record after a line that is not a header.
Continuation(rec, line, media) ==
    LET text == IF rec.text # <<>> THEN rec.text \o <<"\n">> \o Raw(line)
                ELSE Raw(line)
        r1 == [rec EXCEPT !.text = text]
    IN  IF rec.media_path = <<>> THEN ScanMedia(r1, media) ELSE r1

\* The variables the parser leaves alone.
stored == <<store, tx, pc, import_locals, pre, outcome, last_skip, rd, cx,
           dp, md>>

\* The next line is a header: the pending record is yielded, a new one starts.
HeaderLine(line) ==
    /\ ~ps.eof
    /\ Len(ps.lines) < MaxLines
    /\ parse_header(line, ps.tz) # <<>>
    /\ ps' = [ps EXCEPT !.lines = Append(@, line),
                        !.out = @ \o ps.current,
                        !.current = <<NewMessage(parse_header(line, ps.tz)[1],
                                                 ps.media)>>]
    /\ UNCHANGED stored

\* The next line is not a header and a record is pending.
ContinuationLine(line) ==
    /\ ~ps.eof
    /\ Len(ps.lines) < MaxLines
    /\ parse_header(line, ps.tz) = <<>>
    /\ ps.current # <<>>
    /\ ps' = [ps EXCEPT !.lines = Append(@, line),
                        !.current = <<Continuation(ps.current[1], line, ps.media)>>]
    /\ UNCHANGED stored

\* The next line is not a header and no record is pending: continue.
StrayLine(line) ==
    /\ ~ps.eof
    /\ Len(ps.lines) < MaxLines
    /\ parse_header(line, ps.tz) = <<>>
    /\ ps.current = <<>>
    /\ ps' = [ps EXCEPT !.lines = Append(@, line)]
    /\ UNCHANGED stored

\* Variant of EndOfInput: the pending record is not yielded.
EndOfInputNoYield ==
    /\ ~ps.eof
    /\ ps' = [ps EXCEPT !.eof = TRUE]
    /\ UNCHANGED stored

\* The loop ends: the pending record is yielded.
EndOfInput ==
    /\ ~ps.eof
    /\ ps' = [ps EXCEPT !.eof = TRUE, !.out = @ \o ps.current]
    /\ UNCHANGED stored

InitParse ==
    /\ InitMain
    /\ cx = CxInit
    /\ ps \in {PsInit(media, tz) : media \in MediaSets, tz \in TzHours}
    /\ dp = DpInit(0)
    /\ md = MdInit

NextParse ==
    \/ \E line \in Lines : HeaderLine(line)
    \/ \E line \in Lines : ContinuationLine(line)
    \/ \E line \in Lines : StrayLine(line)
    \/ EndOfInput

SpecParse == InitParse /\ [][NextParse]_vars

(***************************************************************************)
(* _parse_header applied to one line of header shape, the numbers of its   *)
(* date and time drawn from values around every limit the code tests.      *)
(***************************************************************************)
DateFirsts == {1, 12, 13, 29, 30, 31, 32}
DateSeconds == {0, 1, 2, 4, 12, 13}
DateThirds == {0, 23, 31, 49, 50, 99, 1899, 1900, 2023, 2024, 2100, 2101}
TimeHours == {0, 9, 11, 12, 13, 23, 24, 25}
TimeMinutes == {0, 59, 60}
TimeMarkers == {"", "AM", "PM"}

DateLines ==
    {Hdr("[d1/d2/d3, hh:mm] ", d1, d2, d3, hh, mm, ampm, <<"al", ": ", "hi">>) :
        d1 \in DateFirsts, d2 \in DateSeconds, d3 \in DateThirds,
        hh \in TimeHours, mm \in TimeMinutes, ampm \in TimeMarkers}

\* The variables _parse_header leaves alone.
undated == <<store, tx, pc, import_locals, pre, outcome, last_skip, rd, cx,
            ps, md>>

DateOf(line) ==
    parse_whatsapp_date(line.d1, line.d2, line.d3, line.hh, line.mm, line.ampm)

\* The date and time parse: the line is a header.
HeaderAccepted ==
    /\ dp.input = <<>>
    /\ \E line \in DateLines :
          /\ DateOf(line) # <<>>
          /\ dp' = [dp EXCEPT !.input = <<line>>, !.dt = DateOf(line),
                              !.header = parse_header(line, dp.tz)]
    /\ UNCHANGED undated

\* parse_whatsapp_date returns None: the line is not a header.
HeaderRejected ==
    /\ dp.input = <<>>
    /\ \E line \in DateLines :
          /\ DateOf(line) = <<>>
          /\ dp' = [dp EXCEPT !.input = <<line>>, !.dt = <<>>,
                              !.header = parse_header(line, dp.tz)]
    /\ UNCHANGED undated

InitDate ==
    /\ InitMain
    /\ cx = CxInit
    /\ ps = PsInit({}, 0)
    /\ dp \in {DpInit(tz) : tz \in TzHours}
    /\ md = MdInit

NextDate ==
    \/ HeaderAccepted
    \/ HeaderRejected

SpecDate == InitDate /\ [][NextDate]_vars

(***************************************************************************)
(* Media display, src/parser.py:227-256 and src/app.py:199-202, 404-421.   *)
(* An archive also holds media files: files is its name list in order,     *)
(* each with the base name and the bytes of the member.  A record's        *)
(* media_path is a name of its own archive (the scan compares with         *)
(* available_media, src/parser.py:172-175).  md.zip_data is the module     *)
(* global _current_zip_data, md.shown the last message displayed with the  *)
(* bytes get_media_file returned for it.                                   *)
(***************************************************************************)
ImgNameUpper == "IMG-20230101-WA0001.JPG"

\* get_media_file returned None.
NoBytes == "None"

File(name, bytes) == [name |-> name, bytes |-> bytes]

\* A record that names the media file of its archive.
MediaRow(k, name) == [Row(k) EXCEPT !.has_media = 1, !.media_path = name]

MediaZip(readable, entries, files) ==
    [readable |-> readable, entries |-> entries, files |-> files]

\* Two chats exported with a photo each: the file names are the same, the
\* photos are not.
ZipFamPhoto ==
    MediaZip(TRUE, <<Entry("fam", <<MediaRow(1, ImgName)>>, "none", 0)>>,
             <<File(ImgName, "fam photo")>>)
ZipJobPhoto ==
    MediaZip(TRUE, <<Entry("job", <<MediaRow(2, ImgName)>>, "none", 0)>>,
             <<File(ImgName, "job photo")>>)
\* A chat without media reference; its archive holds a file whose name
\* differs from ImgName in case only.
ZipUpperPhoto ==
    MediaZip(TRUE, <<Entry("job", <<Row(4)>>, "none", 0)>>,
             <<File(ImgNameUpper, "upper photo")>>)
ZipNoFiles == MediaZip(TRUE, <<Entry("job", <<Row(5)>>, "none", 0)>>, <<>>)
ZipNotAZip == MediaZip(FALSE, <<>>, <<>>)

MediaArchives == {ZipFamPhoto, ZipJobPhoto, ZipUpperPhoto, ZipNoFiles, ZipNotAZip}

\* get_media_file(filename) with _current_zip_data = zip_data: the first
\* member whose base name is filename, else the first whose base name equals
\* it ignoring case, else None; None too when no data is stored or the data
\* is not a ZIP file.
get_media_file(zip_data, filename) ==
    IF zip_data = <<>> \/ ~zip_data[1].readable THEN NoBytes
    ELSE LET files == zip_data[1].files
             exact == {i \in 1..Len(files) : files[i].name = filename}
             anycase == {i \in 1..Len(files) :
                            Lower(files[i].name) = Lower(filename)}
             first(S) == CHOOSE i \in S : \A j \in S : i <= j
         IN  IF exact # {} THEN files[first(exact)].bytes
             ELSE IF anycase # {} THEN files[first(anycase)].bytes
             ELSE NoBytes

\* The variables the media path leaves alone.
unmedia == <<tx, pc, import_locals, pre, outcome, last_skip, rd, cx, ps, dp>>

\* A file is chosen in the uploader: bytes_data = zip_file.read();
\* store_zip_data(bytes_data).
UploadArchive(zip) ==
    /\ md' = [md EXCEPT !.zip_data = <<zip>>]
    /\ UNCHANGED <<store, unmedia>>

\* The import block on the uploaded archive; an unreadable archive raises and
\* the transaction is rolled back.
ImportUploaded(mode) ==
    /\ md.zip_data # <<>>
    /\ mode = "clear" \/ Cardinality(store.messages) <= MaxStored
    /\ store' = IF md.zip_data[1].readable
                THEN import_block(store, md.zip_data[1], mode)
                ELSE store
    /\ UNCHANGED <<md, unmedia>>

\* Browse tab, one message with has_media and a media_path:
\* media_data = get_media_file(msg["media_path"]).
ShowMedia ==
    \E msg \in store.messages :
        /\ msg.has_media # 0
        /\ msg.media_path # NULL
        /\ md' = [md EXCEPT !.shown =
                      <<[msg |-> msg,
                         media_data |-> get_media_file(md.zip_data,
                                                       msg.media_path)]>>]
        /\ UNCHANGED <<store, unmedia>>

\* The server process starts again: the module is loaded anew with
\* _current_zip_data = None; the database file stays.
Restart ==
    /\ md.zip_data # <<>>
    /\ md' = [md EXCEPT !.zip_data = <<>>]
    /\ UNCHANGED <<store, unmedia>>

\* Sidebar button "Clear All Data".
ClearAllMedia ==
    /\ store.chats # {}
    /\ store' = clear_all_data(store)
    /\ UNCHANGED <<md, unmedia>>

NextMedia ==
    \/ \E zip \in MediaArchives : UploadArchive(zip)
    \/ \E mode \in ImportModes : ImportUploaded(mode)
    \/ ShowMedia
    \/ Restart
    \/ ClearAllMedia

SpecMedia == Init /\ [][NextMedia]_vars

(***************************************************************************)
(* Properties.                                                             *)
(***************************************************************************)
Ids(db) == {m.id : m \in db.messages}

\* x precedes y in a chat's canonical order: by timestamp, ties by id.
Precedes(x, y) == x.ts < y.ts \/ (x.ts = y.ts /\ x.id < y.id)

Occurrences(s, x) == Cardinality({i \in 1..Len(s) : s[i] = x})

\* C1: get_thread(m.id, c) on a stored message m returns exactly
\* min(b, c) + 1 + min(a, c) messages, b and a being the numbers of messages of
\* m's chat before and after m (by timestamp, ties by id), and m occurs exactly
\* once in the returned list.
C1_ThreadSize ==
    (rd.op = "get_thread" /\ rd.row # <<>>) =>
        LET m == rd.row[1]
            chat == {x \in store.messages : x.chat_id = m.chat_id}
            b == Cardinality({x \in chat : Precedes(x, m)})
            a == Cardinality({x \in chat : Precedes(m, x)})
        IN /\ Len(rd.thread) = Min2(b, rd.context) + 1 + Min2(a, rd.context)
           /\ Occurrences(rd.thread, m) = 1

\* C2: get_thread with a message id that is not in the store returns an empty
\* thread and no centre message, and leaves the store unchanged.
C2_MissingIdEmpty ==
    [][(rd'.op = "get_thread" /\ rd' # rd /\ rd'.message_id \notin Ids(store))
         => (rd'.thread = <<>> /\ rd'.row = <<>> /\ store' = store)]_vars

C2_Witness ==
    /\ rd.op = "get_thread"
    /\ rd.message_id \notin Ids(store)
    /\ store.messages # {}
    /\ rd.thread = <<>>

\* C3: the list search returns is ordered by timestamp descending and, among
\* equal timestamps, by id descending.
C3_SearchOrder ==
    rd.op = "search" =>
        \A p \in 1..Len(rd.pages) : \A i \in 1..(Len(rd.pages[p]) - 1) :
            LET r1 == rd.pages[p][i]
                r2 == rd.pages[p][i + 1]
            IN r1.ts > r2.ts \/ (r1.ts = r2.ts /\ r1.id > r2.id)

\* C4: every message search returns satisfies every filter the caller
\* supplied, whichever subset of the filters is supplied.
C4_FiltersHold ==
    rd.op = "search" =>
        \A p \in 1..Len(rd.pages) : \A m \in SeqToSet(rd.pages[p]) :
            /\ rd.args.chat_id # NoneInt => m.chat_id = rd.args.chat_id
            /\ rd.args.sender # NULL => m.sender = rd.args.sender
            /\ rd.args.t1 # NoneInt => m.ts >= rd.args.t1
            /\ rd.args.t2 # NoneInt => m.ts <= rd.args.t2
            /\ rd.args.has_media # NoneInt => m.has_media = rd.args.has_media

\* The stored messages whose body holds the query term and that pass the chat,
\* sender and media filters of a search.
Candidates(a) ==
    {m \in store.messages :
        /\ a.q \in Tokens(m.text)
        /\ a.chat_id # NoneInt => m.chat_id = a.chat_id
        /\ a.sender # NULL => m.sender = a.sender
        /\ a.has_media # NoneInt => m.has_media = a.has_media}

\* C5: with both t1 and t2 supplied search returns exactly the matching
\* messages with t1 <= ts <= t2, both bounds inclusive (as many as the limit
\* admits), and nothing when t2 < t1: the bounds are never swapped.
C5_RangeInclusive ==
    (rd.op = "search" /\ rd.args.t1 # NoneInt /\ rd.args.t2 # NoneInt) =>
        LET inRange == {m \in Candidates(rd.args) :
                           rd.args.t1 <= m.ts /\ m.ts <= rd.args.t2}
            page == rd.pages[1]
        IN /\ SeqToSet(page) \subseteq inRange
           /\ Len(page) = Min2(rd.args.limit, Cardinality(inRange))
           /\ Cardinality(SeqToSet(page)) = Len(page)
           /\ rd.args.t2 < rd.args.t1 => page = <<>>

C5_Witness ==
    /\ rd.op = "search"
    /\ rd.args.t1 # NoneInt /\ rd.args.t2 # NoneInt /\ rd.args.t1 < rd.args.t2
    /\ \E i \in 1..Len(rd.pages[1]) : rd.pages[1][i].ts = rd.args.t1
    /\ \E i \in 1..Len(rd.pages[1]) : rd.pages[1][i].ts = rd.args.t2
    /\ \E m \in Candidates(rd.args) : m.ts > rd.args.t2

RECURSIVE Concat(_)
Concat(ss) == IF ss = <<>> THEN <<>> ELSE Head(ss) \o Concat(Tail(ss))

\* The rows of S by timestamp descending, ties by id descending.
RECURSIVE Newest(_)
Newest(S) ==
    IF S = {} THEN <<>>
    ELSE LET m == CHOOSE x \in S : \A y \in S : x = y \/ Precedes(y, x)
         IN <<m>> \o Newest(S \ {m})

\* C6: with no write in between, the pages search returns for offsets 0, L,
\* 2L, ... hold no message twice, and once a page comes back short their
\* concatenation is the complete ordered result.
C6_PagesPartition ==
    rd.op = "search" =>
        LET all == Concat(rd.pages)
            matching == search_where(store, rd.args.q, rd.args.chat_id,
                                     rd.args.sender, rd.args.t1, rd.args.t2,
                                     rd.args.has_media)
        IN /\ \A m \in SeqToSet(all) : Occurrences(all, m) = 1
           /\ Len(rd.pages[Len(rd.pages)]) < rd.args.limit
                => all = Newest(matching)

\* C7: after a failed import the chats, participants, messages and full-text
\* index are exactly what they were before the import began, in every mode.
C7_RollbackRestores ==
    (pc = "done" /\ outcome = "failed") => store = pre

C7_Witness ==
    /\ pc = "done"
    /\ outcome = "failed"
    /\ import_mode = "clear"
    /\ pre.messages # {}
    /\ imported >= BatchSize
    /\ store = pre

\* The stored messages in id order.
RECURSIVE ById(_)
ById(S) ==
    IF S = {} THEN <<>>
    ELSE LET m == CHOOSE x \in S : \A y \in S : x.id <= y.id
         IN <<m>> \o ById(S \ {m})

TitleOf(db, cid) == (CHOOSE c \in db.chats : c.id = cid).title

\* What the store shows of a message: its chat's title and the emitted record.
Shown(db, m) ==
    [title |-> TitleOf(db, m.chat_id),
     row |-> [ts |-> m.ts, sender |-> m.sender, text |-> m.text, type |-> m.type,
              has_media |-> m.has_media, media_path |-> m.media_path]]

\* The records of the entries from index i on that were not skipped, in archive
\* order, each with its transcript's title.
RECURSIVE Emitted(_, _, _)
Emitted(zip, skip, i) ==
    IF i > Len(zip.entries) THEN <<>>
    ELSE LET e == zip.entries[i]
             here == IF i \in SeqToSet(skip) THEN <<>>
                     ELSE [k \in 1..Len(e.rows) |->
                              [title |-> e.title, row |-> e.rows[k]]]
         IN here \o Emitted(zip, skip, i + 1)

\* The messages of the store that the finished import put there.
Added ==
    IF import_mode = "clear" THEN store.messages
    ELSE {m \in store.messages : m.id \notin Ids(pre)}

\* C8: after an import commits, the messages it added, in id order, are
\* exactly the records emitted for the transcripts that were not skipped, in
\* archive and transcript order, each under its transcript's chat.
C8_AllImported ==
    (pc = "done" /\ outcome = "ok") =>
        LET added == ById(Added)
        IN [i \in 1..Len(added) |-> Shown(store, added[i])]
              = Emitted(bytes_data, skipped, 1)

\* C9: importing an archive without any transcript is reported as a failure
\* and leaves the store unchanged, in every mode.
C9_NoTranscriptFails ==
    (pc = "done" /\ bytes_data.readable /\ bytes_data.entries = <<>>) =>
        (outcome = "failed" /\ store = pre)

CountOf(db, title) ==
    Cardinality({m \in db.messages :
                    \E c \in db.chats : c.id = m.chat_id /\ c.title = title})

Titles(db) == {c.title : c \in db.chats}

\* C10: an import in skip mode leaves every chat that already had a message
\* untouched, and importing in skip mode the archive that the last committed
\* skip import brought in leaves every chat's message count and the total
\* unchanged.
C10_SkipIdempotent ==
    (pc = "done" /\ import_mode = "skip") =>
        /\ \A c \in pre.chats :
              check_chat_has_messages(pre, c.id) =>
                 /\ c \in store.chats
                 /\ {m \in store.messages : m.chat_id = c.id}
                       = {m \in pre.messages : m.chat_id = c.id}
        /\ (last_skip = bytes_data /\ bytes_data.readable) =>
              /\ Cardinality(store.messages) = Cardinality(pre.messages)
              /\ \A t \in Titles(store) \cup Titles(pre) :
                    CountOf(store, t) = CountOf(pre, t)

C10_Witness ==
    /\ pc = "done"
    /\ outcome = "ok"
    /\ import_mode = "skip"
    /\ last_skip = bytes_data
    /\ skipped # <<>>
    /\ store.messages # {}

\* C11: an import under "Clear all data first" that commits leaves, from any
\* store, the message counts (per chat title and in total) of the same
\* archive imported into an empty store; imported into an empty store it
\* leaves exactly the store the import block computes.
C11_ClearEqualsFresh ==
    (pc = "done" /\ outcome = "ok" /\ import_mode = "clear") =>
        LET fresh == import_block(EmptyDb, bytes_data, "clear") IN
        /\ Cardinality(store.messages) = Cardinality(fresh.messages)
        /\ \A t \in Titles(store) \cup Titles(fresh) :
               CountOf(store, t) = CountOf(fresh, t)
        /\ pre = EmptyDb => store = fresh

\* A committed clear-mode import into a store that held messages of a chat
\* the archive does not name.
C11_Witness ==
    /\ pc = "done" /\ outcome = "ok" /\ import_mode = "clear"
    /\ store.messages # {}
    /\ \E t \in Titles(pre) : CountOf(pre, t) > 0 /\ t \notin Titles(store)

\* The chat titles an archive names.
ArchiveTitles(zip) == {zip.entries[i].title : i \in 1..Len(zip.entries)}

\* C12: an import under the replacing policy ("Clear all data first") deletes
\* messages only of chats whose title the archive names; every other chat is
\* still there with its participants and messages.
C12_ReplaceKeepsOthers ==
    (pc = "done" /\ outcome = "ok" /\ import_mode = "clear") =>
        \A c \in pre.chats :
            c.title \notin ArchiveTitles(bytes_data) =>
                /\ c \in store.chats
                /\ {m \in store.messages : m.chat_id = c.id}
                     = {m \in pre.messages : m.chat_id = c.id}
                /\ {q \in store.participants : q.chat_id = c.id}
                     = {q \in pre.participants : q.chat_id = c.id}

\* C13: in every committed store the index holds, for each stored message,
\* exactly one entry under the message's id with the message's text, and no
\* entry under any other id.
C13_IndexMatchesMessages ==
    /\ store.fts = {[rowid |-> m.id, text |-> m.text] : m \in store.messages}
    /\ \A a \in store.fts, b \in store.fts : a.rowid = b.rowid => a = b

\* A committed import that deleted indexed messages (clear_all_data, then
\* clear_chat_messages for the repeated title) and inserted others.
C13_Witness ==
    /\ pc = "done" /\ outcome = "ok" /\ import_mode = "clear"
    /\ bytes_data = ZipSameName
    /\ pre.fts # {}
    /\ store.fts # {} /\ store.fts # pre.fts

NoFacets == [chats |-> {}, senders |-> {}, years |-> <<>>]

\* C15: when the Clear All Data button has committed, the store has no chat,
\* participant, message or index entry and list_facets gives three empty
\* lists, also as read by the search tab.
C15_ClearedIsEmpty ==
    /\ pc = "cleared" =>
          /\ store.chats = {} /\ store.participants = {}
          /\ store.messages = {} /\ store.fts = {}
          /\ list_facets(store) = NoFacets
    /\ (rd.op = "list_facets" /\ store = clear_all_data(store)) =>
          rd.facets = NoFacets

\* The button has just cleared a store with chats, participants and messages.
C15_Witness ==
    /\ pc = "cleared"
    /\ pre.chats # {} /\ pre.participants # {} /\ pre.messages # {}
    /\ store = EmptyDb

NoDupTitles(db) == \A a \in db.chats, b \in db.chats : a.title = b.title => a = b

\* C14: upsert_chat is idempotent (a second call for a title adds no row and
\* returns the first call's id), and no two chat rows have the same title, in
\* the committed store and in what each open transaction sees, also when
\* imports naming the same title overlap.
C14_UniqueTitles ==
    /\ NoDupTitles(store)
    /\ \A c \in Conns : NoDupTitles(View(c))
    /\ \A t \in {"fam", "job"} :
          /\ upsert_chat(upsert_chat(store, t), t) = upsert_chat(store, t)
          /\ upsert_chat_id(upsert_chat(store, t), t) = upsert_chat_id(store, t)

\* Two overlapping imports of one title: c's SELECT found no row, then the
\* other connection committed a chat of that title, and c's INSERT is next.
C14_Witness ==
    \E c \in Conns :
        /\ cx.conn[c].pc = "insert"
        /\ cx.conn[c].stale
        /\ cx.conn[c].zip.entries[cx.conn[c].ti].title \in Titles(store)

\* The lines read so far grouped by message: each header line with the lines
\* up to the next header; lines before the first header are in no group.
RECURSIVE Groups(_, _)
Groups(lines, tz) ==
    IF lines = <<>> THEN <<>>
    ELSE LET g == Groups(SubSeq(lines, 1, Len(lines) - 1), tz)
             l == lines[Len(lines)]
         IN  IF parse_header(l, tz) # <<>> THEN Append(g, <<l>>)
             ELSE IF g = <<>> THEN g
             ELSE [g EXCEPT ![Len(g)] = Append(@, l)]

NotNewline(word) == word # "\n"

\* The words of the lines ls one after the other.
RECURSIVE RawAll(_)
RawAll(ls) == IF ls = <<>> THEN <<>> ELSE Raw(Head(ls)) \o RawAll(Tail(ls))

\* For each line of ls a newline and the line.
RECURSIVE JoinLines(_)
JoinLines(ls) ==
    IF ls = <<>> THEN <<>> ELSE <<"\n">> \o Raw(Head(ls)) \o JoinLines(Tail(ls))

\* The records yielded so far and the pending one.
Records == IF ps.eof THEN ps.out ELSE ps.out \o ps.current

\* C16: the generator yields one record per header line, in order, each when
\* the next header arrives or the input ends; lines before the first header
\* are in no record; every line after a header is in its message's text.
C16_OneRecordPerHeader ==
    LET g == Groups(ps.lines, ps.tz) IN
    /\ Len(Records) = Len(g)
    /\ ps.eof => Len(ps.out) = Len(g)
    /\ ~ps.eof => Len(ps.out) = (IF g = <<>> THEN 0 ELSE Len(g) - 1)
    /\ \A i \in 1..Len(Records) :
          LET h == parse_header(g[i][1], ps.tz)[1] IN
          /\ Records[i].ts = h.ts
          /\ Records[i].sender = h.sender
          /\ SelectSeq(Records[i].text, NotNewline) = h.text \o RawAll(Tail(g[i]))

\* Input ended after a stray line, a header, a continuation line and a second
\* header: two records, the first with the continuation line in its text.
C16_Witness ==
    /\ ps.eof
    /\ Len(ps.lines) = 4
    /\ parse_header(ps.lines[1], ps.tz) = <<>>
    /\ parse_header(ps.lines[2], ps.tz) # <<>>
    /\ ps.lines[3] = LineMore
    /\ parse_header(ps.lines[4], ps.tz) # <<>>
    /\ Len(ps.out) = 2
    /\ ps.out[1].text = parse_header(ps.lines[2], ps.tz)[1].text \o <<"\n", "more">>

\* C17: a record's text is its header's text followed, for each continuation
\* line in order, by a newline and the line; also when the header's text is
\* empty.
C17_TextJoined ==
    LET g == Groups(ps.lines, ps.tz) IN
    \A i \in 1..Len(Records) :
        i <= Len(g) =>
            Records[i].text = parse_header(g[i][1], ps.tz)[1].text
                                \o JoinLines(Tail(g[i]))

\* C18: a line of header shape whose date or time is invalid starts no
\* message: nothing is yielded for it, and a pending record gets the line as
\* read appended to its text, its timestamp, sender and kind unchanged.
C18_InvalidHeaderContinues ==
    [][(ps'.lines # ps.lines /\ ps'.lines[Len(ps'.lines)].hdr
          /\ parse_whatsapp_date(ps'.lines[Len(ps'.lines)].d1,
                                 ps'.lines[Len(ps'.lines)].d2,
                                 ps'.lines[Len(ps'.lines)].d3,
                                 ps'.lines[Len(ps'.lines)].hh,
                                 ps'.lines[Len(ps'.lines)].mm,
                                 ps'.lines[Len(ps'.lines)].ampm) = <<>>)
        => /\ ps'.out = ps.out
           /\ Len(ps'.current) = Len(ps.current)
           /\ ps.current # <<>> =>
                /\ ps'.current[1].ts = ps.current[1].ts
                /\ ps'.current[1].sender = ps.current[1].sender
                /\ ps'.current[1].type = ps.current[1].type
                /\ \E sep \in {<<>>, <<"\n">>} :
                      ps'.current[1].text =
                         ps.current[1].text \o sep \o Raw(ps'.lines[Len(ps'.lines)])]_vars

\* The last line read has header shape and an invalid time, and the pending
\* record's text ends with it.
C18_Witness ==
    /\ Len(ps.lines) >= 2
    /\ ps.lines[Len(ps.lines)] = LineBadHour
    /\ ps.current # <<>>
    /\ Len(ps.out) = 0
    /\ SubSeq(ps.current[1].text,
              Len(ps.current[1].text) - Len(Raw(LineBadHour)) + 1,
              Len(ps.current[1].text)) = Raw(LineBadHour)

\* A placeholder phrase in any letter case.
AnyPlaceholder(text) ==
    \E i \in 1..Len(text) : Lower(text[i]) \in {"<media omitted>", "image omitted"}

\* The media names in a text that the archive holds.
NamedInArchive(text) == {text[i] : i \in 1..Len(text)} \cap MediaNames \cap ps.media

\* C19: a yielded record whose text names a media file of the archive has
\* the media flag set and that name as media path, whatever precedes the
\* name; one whose text names none and has no placeholder has flag 0 and no
\* path.
C19_MediaResolved ==
    \A i \in 1..Len(ps.out) :
        LET r == ps.out[i] IN
        /\ NamedInArchive(r.text) # {} =>
              /\ r.has_media = 1
              /\ r.media_path # <<>>
              /\ r.media_path[1] \in NamedInArchive(r.text)
        /\ (NamedInArchive(r.text) = {} /\ ~AnyPlaceholder(r.text)) =>
              /\ r.has_media = 0
              /\ r.media_path = <<>>

\* C20: a yielded record whose text has a placeholder phrase, in any letter
\* case, on the header line or on a continuation line, has the media flag set.
C20_PlaceholderFlag ==
    \A i \in 1..Len(ps.out) :
        AnyPlaceholder(ps.out[i].text) => ps.out[i].has_media = 1

\* C21: a record of kind system has no sender (None) and a record of kind
\* message has one, for every header line, also one whose rest begins with
\* the colon-space separator.
C21_SystemHasNoSender ==
    \A i \in 1..Len(Records) :
        /\ Records[i].type = "system" => Records[i].sender = <<>>
        /\ Records[i].type = "message" => Records[i].sender # <<>>

\* The line parsed and its date.
DpLine == dp.input[1]
DpDate == dp.dt[1]

\* C22: for an accepted date p1/p2/year, p1 > 12 gives day p1 and month p2;
\* else p2 > 12 gives month p1 and day p2; else day p1 and month p2; with a
\* 4-digit and with a 2-digit year.
C22_DayFirst ==
    (dp.input # <<>> /\ dp.dt # <<>>) =>
        IF DpLine.d1 > 12 THEN DpDate.day = DpLine.d1 /\ DpDate.month = DpLine.d2
        ELSE IF DpLine.d2 > 12
             THEN DpDate.month = DpLine.d1 /\ DpDate.day = DpLine.d2
        ELSE DpDate.day = DpLine.d1 /\ DpDate.month = DpLine.d2

\* 1/2/23 is accepted as 1 February 2023.
C22_Witness ==
    /\ dp.input # <<>> /\ dp.dt # <<>>
    /\ DpLine.d1 = 1 /\ DpLine.d2 = 2 /\ DpLine.d3 = 23
    /\ DpDate.day = 1 /\ DpDate.month = 2 /\ DpDate.year = 2023

\* The date's day exists in its month, read by the rule of C22.
RealDay(line, year) ==
    LET day == IF line.d1 > 12 THEN line.d1
               ELSE IF line.d2 > 12 THEN line.d2 ELSE line.d1
        month == IF line.d1 > 12 THEN line.d2
                 ELSE IF line.d2 > 12 THEN line.d1 ELSE line.d2
    IN  1 <= month /\ month <= 12 /\ 1 <= day /\ day <= DaysInMonth(year, month)

\* The time is in range after the AM/PM marker is applied.
RealTime(line) ==
    LET h == IF line.ampm = "PM" /\ line.hh # 12 THEN line.hh + 12
             ELSE IF line.ampm = "AM" /\ line.hh = 12 THEN 0 ELSE line.hh
    IN  0 <= h /\ h <= 23 /\ 0 <= line.mm /\ line.mm <= 59

\* C23: a header date with a 2-digit year p3 is dated in 2000 + p3 when
\* p3 < 50 and in 1900 + p3 otherwise, and the line is accepted as a header.
C23_TwoDigitYear ==
    (dp.input # <<>> /\ DpLine.d3 <= 99
       /\ RealDay(DpLine, IF DpLine.d3 < 50 THEN 2000 + DpLine.d3
                          ELSE 1900 + DpLine.d3)
       /\ RealTime(DpLine)) =>
        /\ dp.dt # <<>>
        /\ dp.header # <<>>
        /\ DpDate.year = IF DpLine.d3 < 50 THEN 2000 + DpLine.d3
                         ELSE 1900 + DpLine.d3

\* C24: the timestamp of an accepted header is the UTC instant of the date
\* and time written, whatever the host's time zone, and the year list_facets
\* derives from it is the year written.
C24_UtcInstant ==
    (dp.input # <<>> /\ dp.header # <<>>) =>
        /\ dp.header[1].ts = mktime_min(DpDate, 0)
        /\ YearOfDays(dp.header[1].ts \div 1440) = DpDate.year

\* C27: a date is rejected exactly when its month is outside 1..12, its day
\* outside 1..31, its year outside 1900..2100, or its time out of range.
C27_RejectsOutOfRange ==
    dp.input # <<>> =>
        LET d == DayMonth(DpLine.d1, DpLine.d2, DpLine.d3)
            y == DateYear(DpLine.d1, DpLine.d2, DpLine.d3)
        IN  (dp.dt = <<>>) <=>
               \/ ~(1 <= d.month /\ d.month <= 12)
               \/ ~(1 <= d.day /\ d.day <= 31)
               \/ ~(1900 <= y /\ y <= 2100)
               \/ ~RealTime(DpLine)

\* C27 as amended: a date is rejected exactly when its month is outside
\* 1..12, its day outside 1..(days of that month in that year), its year
\* outside 1900..2100, or its time out of range.
C27_RejectsImpossible ==
    dp.input # <<>> =>
        LET d == DayMonth(DpLine.d1, DpLine.d2, DpLine.d3)
            y == DateYear(DpLine.d1, DpLine.d2, DpLine.d3)
        IN  (dp.dt = <<>>) <=>
               \/ ~(1 <= d.month /\ d.month <= 12)
               \/ ~(1 <= d.day /\ d.day <= DaysInMonth(y, d.month))
               \/ ~(1900 <= y /\ y <= 2100)
               \/ ~RealTime(DpLine)

\* 30/02/2024, 9:59 AM is within the ranges of C27 and is rejected.
C27_Witness ==
    /\ dp.input # <<>> /\ dp.dt = <<>> /\ dp.header = <<>>
    /\ DpLine.d1 = 30 /\ DpLine.d2 = 2 /\ DpLine.d3 = 2024
    /\ DpLine.hh = 9 /\ DpLine.mm = 59 /\ DpLine.ampm = "AM"

\* C28: with PM an hour 1..11 becomes h + 12 and 12 stays 12; with AM 12
\* becomes 0 and other hours stay; without a marker the hour stays; the time
\* is rejected when the resulting hour is outside 0..23 or the minute outside
\* 0..59, so an accepted header has hour 0..23 and minute 0..59.
C28_TimeNormalized ==
    dp.input # <<>> =>
        LET h == DpLine.hh
            want == IF DpLine.ampm = "PM" /\ h # 12 THEN h + 12
                    ELSE IF DpLine.ampm = "AM" /\ h = 12 THEN 0
                    ELSE h
        IN  /\ dp.dt # <<>> =>
                  /\ DpDate.hour = want /\ DpDate.minute = DpLine.mm
                  /\ 0 <= DpDate.hour /\ DpDate.hour <= 23
                  /\ 0 <= DpDate.minute /\ DpDate.minute <= 59
            /\ (want > 23 \/ DpLine.mm > 59) => dp.dt = <<>>

\* 12:59 AM is accepted as 00:59.
C28_Witness ==
    /\ dp.input # <<>> /\ dp.dt # <<>>
    /\ DpLine.hh = 12 /\ DpLine.mm = 59 /\ DpLine.ampm = "AM"
    /\ DpDate.hour = 0 /\ DpDate.minute = 59

\* C25: the strict reader never meets bytes it cannot decode while the
\* transcript is imported, wherever in the file they are (such a transcript
\* is read with the permissive fallback), and a committed import holds the
\* messages of every transcript with invalid bytes that it did not skip.
C25_DecodingNeverFails ==
    /\ ~(/\ pc = "msgs"
          /\ mi < Len(bytes_data.entries[ti].rows)
          /\ DecodeRaises(bytes_data.entries[ti], mi + 1))
    /\ (pc = "done" /\ outcome = "ok") =>
          \A i \in 1..Len(bytes_data.entries) :
              (bytes_data.entries[i].bad_utf8 # "none" /\ i \notin SeqToSet(skipped))
                  => CountOf(store, bytes_data.entries[i].title)
                        >= Len(bytes_data.entries[i].rows)

\* C30: in every committed store each message with a non-null sender has a
\* participant row of its chat with that name, and no two participant rows
\* have the same chat and name.
C30_SendersAreParticipants ==
    /\ \A m \in store.messages :
          m.sender # NULL =>
              \E q \in store.participants :
                  q.chat_id = m.chat_id /\ q.name = m.sender
    /\ \A q \in store.participants, r \in store.participants :
          (q.chat_id = r.chat_id /\ q.name = r.name) => q = r

\* C26: a read running on its own connection while transactions of other
\* connections are in progress returns a result that one committed state of
\* the store gives: a state committed no earlier than the one the read began
\* on and no later than the one it ended on.
C26_ReadsSeeCommitted ==
    (rd # NoRead /\ rd.step = rd.steps) =>
        \E db \in rd.seen :
            \/ rd.op = "list_facets" /\ rd.facets = list_facets(db)
            \/ rd.op = "search" /\ rd.pages[1] \in search(db, rd.args, 0)

\* The archives a stored message can have been imported from: those with a
\* transcript record of the message's content.
OriginsOf(msg) ==
    {zip \in MediaArchives :
        \E i \in 1..Len(zip.entries) :
            \E k \in 1..Len(zip.entries[i].rows) :
                LET row == zip.entries[i].rows[k] IN
                /\ row.ts = msg.ts /\ row.sender = msg.sender
                /\ row.text = msg.text /\ row.media_path = msg.media_path}

\* C29: for a stored message with a media path, get_media_file(media path)
\* returns the bytes the file of that name has in the archive the message was
\* imported from, whatever was uploaded since.
C29_MediaFromOrigin ==
    md.shown # <<>> =>
        \E zip \in OriginsOf(md.shown[1].msg) :
            md.shown[1].media_data =
                get_media_file(<<zip>>, md.shown[1].msg.media_path)

=============================================================================
